---- MODULE Spec2Model ----
(***************************************************************************)
(* A model of the demultiplexing core of bcl2fastr:                        *)
(*   - common/sample_data.rs : make_sample_maps and the Samples lookups    *)
(*   - common/extract_reads.rs : unpack_byte, process_tiles, extract_reads *)
(* The hamming_set module (singleton_set, hamming_set, check_conflict) and *)
(* the CBCL header used by extract_reads (decode_qscore) are not part of   *)
(* the sources at hand; they are modelled from the specification and from  *)
(* the expectations of the tests in sample_data.rs.                        *)
(***************************************************************************)
EXTENDS Integers, Sequences, FiniteSets, TLC

VARIABLES
    \* make_sample_maps: the arguments
    sample_names, project_names, index_vec, index2_vec, max_distance,
    \* make_sample_maps: position, loop variable, locals, panic, return value
    pc, i, index_hash_sets, index2_hash_sets, err, samples,
    \* the last lookup made on the returned Samples
    call,
    \* extract_reads: the arguments
    headers, filter, pf_filter, tile,
    \* extract_reads: position, rows processed so far, the output array
    rpc, row, out_array,
    \* a function applied on its own: its arguments and what it returned
    arg, ret,
    \* make_sample_maps: what the expansion workers of a round have collected
    \* (new_index_hash_sets and new_index2_hash_sets while they are built)
    new_sets, new_sets2,
    \* read_samplesheet: the records of the file, position, the rows from the
    \* [Data] row on, the sample rows gone through, the vectors of each lane,
    \* the lane handed to make_sample_maps, the Samples of the lanes
    sheet, spc, rows, n_records, lanes, lane, sample_data

mapArgs == <<sample_names, project_names, index_vec, index2_vec, max_distance>>
mapVars == <<pc, i, index_hash_sets, index2_hash_sets, err, samples>>
readArgs == <<headers, filter, pf_filter, tile>>
readVars == <<rpc, row, out_array>>
fnVars == <<arg, ret>>
parVars == <<new_sets, new_sets2>>
sheetVars == <<sheet, spc, rows, n_records, lanes, lane, sample_data>>
vars == <<mapArgs, mapVars, call, readArgs, readVars, fnVars, parVars, sheetVars>>

----------------------------------------------------------------------------
(* Bounds of the model *)

\* the largest number of samples in a lane
MaxSamples == 2
\* the largest max_distance handed to make_sample_maps
MaxDist == 2

----------------------------------------------------------------------------
(* Values *)

\* the alphabet of the Hamming neighbourhood builder
Sigma == {"A", "C", "G", "T", "N"}

\* Option<String>::None
NoneP == "None"

\* no panic so far / no value returned
NoErr == "NoErr"
NoSamples == "NoSamples"
\* no lookup made so far
NoCall == [op |-> "none", i |-> 0, indices |-> <<>>, result |-> "none"]
Idle == "Idle"

\* the panic messages of make_sample_maps
MsgMissingIndexes == "Missing indexes for some samples"
MsgMissingIndex2 == "Samplesheet is missing index2 for some samples"
MsgMissingProject == "Samplesheet is missing project names for some samples"
MsgNamesUnique == "Sample names must be unique"
MsgCollision == "Can't demux two different samples using the same indices"

\* the error kinds of the specification the panic messages stand for
MalformedSampleSheet ==
    {MsgMissingIndexes, MsgMissingIndex2, MsgMissingProject, MsgNamesUnique}
IndexCollision == {MsgCollision}

Range(s) == {s[k] : k \in DOMAIN s}

----------------------------------------------------------------------------
(* hamming_set module *)

\* singleton_set(s) = {s}
singleton_set(s) == {s}

\* hamming_set writing only letters other than the one already there, so a
\* string is not among its own neighbours
hamming_set_OtherLetters(S) ==
    UNION {UNION {{[s EXCEPT ![k] = c] : c \in Sigma \ {s[k]}} : k \in DOMAIN s} : s \in S}

\* every string obtained from a member of S by writing a letter of Sigma at
\* one position (the letter already there included, so S itself is kept)
hamming_set(S) ==
    UNION {{[s EXCEPT ![k] = c] : k \in DOMAIN s, c \in Sigma} : s \in S}

\* the conflict predicate over a lane: two distinct samples share a neighbour
\* (single index), or share one in both maps (two indices)
check_conflict(names, sets, sets2) ==
    \E j \in DOMAIN sets : \E k \in DOMAIN sets :
        /\ j < k
        /\ sets[j] \cap sets[k] # {}
        /\ Len(sets2) > 0 => (sets2[j] \cap sets2[k] # {})

----------------------------------------------------------------------------
(* make_sample_maps *)

\* the number of samples that have a project name
n_project_names ==
    Cardinality({k \in DOMAIN project_names : project_names[k] # NoneP})

\* ValidationError without the assertion that sample names are unique
ValidationError_NoUniqueCheck ==
    IF Len(sample_names) # Len(index_vec)
        THEN MsgMissingIndexes
    ELSE IF ~(Len(index2_vec) = Len(index_vec) \/ Len(index2_vec) = 0)
        THEN MsgMissingIndex2
    ELSE IF ~(n_project_names = Len(sample_names) \/ n_project_names = 0)
        THEN MsgMissingProject
    ELSE NoErr

\* the message of the first assertion of make_sample_maps that fails on the
\* arguments, NoErr when all four hold
ValidationError ==
    IF Len(sample_names) # Len(index_vec)
        THEN MsgMissingIndexes
    ELSE IF ~(Len(index2_vec) = Len(index_vec) \/ Len(index2_vec) = 0)
        THEN MsgMissingIndex2
    ELSE IF ~(n_project_names = Len(sample_names) \/ n_project_names = 0)
        THEN MsgMissingProject
    ELSE IF Len(sample_names) # Cardinality(Range(sample_names))
        THEN MsgNamesUnique
    ELSE NoErr

\* the assertions on the shape of the arguments, then the distance-0 sets
Validate ==
    /\ pc = "start"
    /\ IF ValidationError # NoErr
         THEN /\ pc' = "failed"
              /\ err' = ValidationError
              /\ UNCHANGED <<index_hash_sets, index2_hash_sets>>
         ELSE /\ pc' = "check0"
              /\ index_hash_sets' =
                    [k \in DOMAIN index_vec |-> singleton_set(index_vec[k])]
              /\ index2_hash_sets' =
                    [k \in DOMAIN index2_vec |-> singleton_set(index2_vec[k])]
              /\ err' = err
    /\ UNCHANGED <<mapArgs, i, samples, call, readArgs, readVars, fnVars,
                 parVars, sheetVars>>

\* CheckDistance0 treating a collision as the loop does: a warning, no panic
CheckDistance0_WarnOnly ==
    /\ pc = "check0"
    /\ pc' = IF check_conflict(sample_names, index_hash_sets, index2_hash_sets)
               THEN "return" ELSE "loop"
    /\ UNCHANGED <<mapArgs, i, index_hash_sets, index2_hash_sets, err, samples,
                   call, readArgs, readVars, fnVars,
                 parVars, sheetVars>>

\* the conflict check at distance 0: a collision of the indices as given
CheckDistance0 ==
    /\ pc = "check0"
    /\ IF check_conflict(sample_names, index_hash_sets, index2_hash_sets)
         THEN /\ pc' = "failed"
              /\ err' = MsgCollision
         ELSE /\ pc' = "loop"
              /\ err' = err
    /\ UNCHANGED <<mapArgs, i, index_hash_sets, index2_hash_sets, samples, call, readArgs, readVars, fnVars,
                 parVars, sheetVars>>

\* ExpandStep committing the expanded sets before the conflict check
ExpandStep_CommitBeforeCheck ==
    /\ pc = "loop"
    /\ IF i < max_distance
         THEN /\ i' = i + 1
              /\ index_hash_sets' =
                    [k \in DOMAIN index_hash_sets |-> hamming_set(index_hash_sets[k])]
              /\ index2_hash_sets' =
                    [k \in DOMAIN index2_hash_sets |-> hamming_set(index2_hash_sets[k])]
              /\ pc' = IF check_conflict(sample_names, index_hash_sets',
                                         index2_hash_sets')
                         THEN "return" ELSE "loop"
         ELSE /\ pc' = "return"
              /\ UNCHANGED <<i, index_hash_sets, index2_hash_sets>>
    /\ UNCHANGED <<mapArgs, err, samples, call, readArgs, readVars, fnVars,
                 parVars, sheetVars>>

\* ExpandStep looping over 1..max_distance, the upper end excluded
ExpandStep_ExclusiveRange ==
    /\ pc = "loop"
    /\ IF i + 1 < max_distance
         THEN /\ i' = i + 1
              /\ LET new_index_hash_sets ==
                         [k \in DOMAIN index_hash_sets |->
                             hamming_set(index_hash_sets[k])]
                     new_index2_hash_sets ==
                         [k \in DOMAIN index2_hash_sets |->
                             hamming_set(index2_hash_sets[k])]
                 IN  IF check_conflict(sample_names, new_index_hash_sets,
                                       new_index2_hash_sets)
                       THEN /\ pc' = "return"
                            /\ UNCHANGED <<index_hash_sets, index2_hash_sets>>
                       ELSE /\ pc' = "loop"
                            /\ index_hash_sets' = new_index_hash_sets
                            /\ index2_hash_sets' = new_index2_hash_sets
         ELSE /\ pc' = "return"
              /\ UNCHANGED <<i, index_hash_sets, index2_hash_sets>>
    /\ UNCHANGED <<mapArgs, err, samples, call, readArgs, readVars, fnVars,
                 parVars, sheetVars>>

\* ExpandStep running the conflict check on the committed sets, not on the
\* expanded ones
ExpandStep_ChecksCommittedSets ==
    /\ pc = "loop"
    /\ IF i < max_distance
         THEN /\ i' = i + 1
              /\ LET new_index_hash_sets ==
                         [k \in DOMAIN index_hash_sets |->
                             hamming_set(index_hash_sets[k])]
                     new_index2_hash_sets ==
                         [k \in DOMAIN index2_hash_sets |->
                             hamming_set(index2_hash_sets[k])]
                 IN  IF check_conflict(sample_names, index_hash_sets,
                                       index2_hash_sets)
                       THEN /\ pc' = "return"
                            /\ UNCHANGED <<index_hash_sets, index2_hash_sets>>
                       ELSE /\ pc' = "loop"
                            /\ index_hash_sets' = new_index_hash_sets
                            /\ index2_hash_sets' = new_index2_hash_sets
         ELSE /\ pc' = "return"
              /\ UNCHANGED <<i, index_hash_sets, index2_hash_sets>>
    /\ UNCHANGED <<mapArgs, err, samples, call, readArgs, readVars, fnVars,
                 parVars, sheetVars>>

\* `for i in 1..=max_distance`: one iteration expands every sample's sets,
\* then either breaks on a conflict (a warning) or commits the expanded sets;
\* past max_distance the loop is left
ExpandStep ==
    /\ pc = "loop"
    /\ IF i < max_distance
         THEN /\ i' = i + 1
              /\ LET new_index_hash_sets ==
                         [k \in DOMAIN index_hash_sets |->
                             hamming_set(index_hash_sets[k])]
                     new_index2_hash_sets ==
                         [k \in DOMAIN index2_hash_sets |->
                             hamming_set(index2_hash_sets[k])]
                 IN  IF check_conflict(sample_names, new_index_hash_sets,
                                       new_index2_hash_sets)
                       THEN /\ pc' = "return"
                            /\ UNCHANGED <<index_hash_sets, index2_hash_sets>>
                       ELSE /\ pc' = "loop"
                            /\ index_hash_sets' = new_index_hash_sets
                            /\ index2_hash_sets' = new_index2_hash_sets
         ELSE /\ pc' = "return"
              /\ UNCHANGED <<i, index_hash_sets, index2_hash_sets>>
    /\ UNCHANGED <<mapArgs, err, samples, call, readArgs, readVars, fnVars,
                 parVars, sheetVars>>

\* Return with the two maps taken from each other's sets
Return_SwappedMaps ==
    /\ pc = "return"
    /\ pc' = "done"
    /\ samples' = [sample_names |-> sample_names,
                   project_names |-> project_names,
                   index_vec |-> index_vec,
                   index_map |-> index2_hash_sets,
                   index2_vec |-> index2_vec,
                   index2_map |-> index_hash_sets]
    /\ UNCHANGED <<mapArgs, i, index_hash_sets, index2_hash_sets, err, call,
                   readArgs, readVars, fnVars,
                 parVars, sheetVars>>

\* the Samples value built from the arguments and the committed sets
Return ==
    /\ pc = "return"
    /\ pc' = "done"
    /\ samples' = [sample_names |-> sample_names,
                   project_names |-> project_names,
                   index_vec |-> index_vec,
                   index_map |-> index_hash_sets,
                   index2_vec |-> index2_vec,
                   index2_map |-> index2_hash_sets]
    /\ UNCHANGED <<mapArgs, i, index_hash_sets, index2_hash_sets, err, call,
                   readArgs, readVars, fnVars,
                 parVars, sheetVars>>

make_sample_maps == Validate \/ CheckDistance0 \/ ExpandStep \/ Return

----------------------------------------------------------------------------
(* The arguments make_sample_maps is run on *)

SampleNameSet == 1..MaxSamples
ProjectNameSet == {NoneP, "project_1"}

AAA == <<"A", "A", "A">>
AAC == <<"A", "A", "C">>
CCC == <<"C", "C", "C">>
AA == <<"A", "A">>

IndexPool == {AAA, AAC, CCC, AA}
Index2Pool == {AAA, CCC}

SeqsUpTo(S, n) == UNION {[1..m -> S] : m \in 0..n}

\* the locals of make_sample_maps before it runs
MapLocals ==
    /\ i = 0
    /\ index_hash_sets = <<>>
    /\ index2_hash_sets = <<>>
    /\ err = NoErr
    /\ samples = NoSamples
    /\ call = NoCall
    /\ new_sets = <<>>
    /\ new_sets2 = <<>>

MapStart == pc = "start" /\ MapLocals

\* extract_reads is not running
ReadsIdle ==
    /\ headers = <<>>
    /\ filter = <<>>
    /\ pf_filter = <<>>
    /\ tile = 0
    /\ rpc = Idle
    /\ row = 0
    /\ out_array = <<>>

\* read_samplesheet is not running
SheetIdle ==
    /\ sheet = <<>>
    /\ spc = Idle
    /\ rows = <<>>
    /\ n_records = 0
    /\ lanes = <<>>
    /\ lane = 0
    /\ sample_data = <<>>

NoArg == [op |-> "none"]

\* no function is applied on its own
FnIdle ==
    /\ arg = NoArg
    /\ ret = <<>>

\* well-shaped lanes, whose indices vary
InitIndex ==
    /\ \E n \in 1..MaxSamples :
        /\ sample_names = [k \in 1..n |-> k]
        /\ project_names = [k \in 1..n |-> NoneP]
        /\ index_vec \in [1..n -> IndexPool]
        /\ index2_vec \in {<<>>} \cup [1..n -> Index2Pool]
    /\ max_distance \in 0..MaxDist
    /\ MapStart
    /\ SheetIdle
    /\ ReadsIdle
    /\ FnIdle

\* lanes whose shape varies
InitShape ==
    /\ sample_names \in SeqsUpTo(SampleNameSet, MaxSamples)
    /\ project_names \in {<<>>} \cup [1..Len(sample_names) -> ProjectNameSet]
    /\ index_vec \in SeqsUpTo({AAA, CCC}, MaxSamples)
    /\ index2_vec \in SeqsUpTo({AAA}, MaxSamples)
    /\ max_distance \in 0..MaxDist
    /\ MapStart
    /\ SheetIdle
    /\ ReadsIdle
    /\ FnIdle

Init == InitIndex \/ InitShape

Next == make_sample_maps

Spec == Init /\ [][Next]_vars

\* make_sample_maps has returned a Samples value / has panicked
Returned == pc = "done"
Panicked == pc = "failed"
Finished == Returned \/ Panicked

----------------------------------------------------------------------------
(* Samples: the lookups *)

\* the largest number of indices handed to a lookup
MaxArity == 3

\* what a lookup gives: a bool, or a panic
Bool(b) == IF b THEN "true" ELSE "false"
ArityError == "Got n indices?!"
IndexOutOfBounds == "index out of bounds"
IsPanic(r) == r \in {ArityError, IndexOutOfBounds}

\* helper for when there is one index
get_1index_sample(S, k, idx) ==
    IF k \notin DOMAIN S.index_map THEN IndexOutOfBounds
    ELSE Bool(idx \in S.index_map[k])

\* get_2index_sample looking at the first index only
get_2index_sample_IgnoresIndex2(S, k, idx, idx2) ==
    IF k \notin DOMAIN S.index_map THEN IndexOutOfBounds
    ELSE Bool(idx \in S.index_map[k])

\* helper for when there are two indices; `&&` reads index2_map[k] only when
\* the first index is in index_map[k]
get_2index_sample(S, k, idx, idx2) ==
    IF k \notin DOMAIN S.index_map THEN IndexOutOfBounds
    ELSE IF idx \notin S.index_map[k] THEN Bool(FALSE)
    ELSE IF k \notin DOMAIN S.index2_map THEN IndexOutOfBounds
    ELSE Bool(idx2 \in S.index2_map[k])

\* look up sample k given a vector of indices
get_sample(S, k, indices) ==
    CASE Len(indices) = 1 -> get_1index_sample(S, k, indices[1])
      [] Len(indices) = 2 -> get_2index_sample(S, k, indices[1], indices[2])
      [] OTHER -> ArityError

\* is_exact taking every vector of two or more indices for a pair
is_exact_TwoOrMore(S, k, indices) ==
    CASE Len(indices) = 1 ->
            IF k \notin DOMAIN S.index_vec THEN IndexOutOfBounds
            ELSE Bool(S.index_vec[k] = indices[1])
      [] Len(indices) >= 2 ->
            IF k \notin DOMAIN S.index_vec THEN IndexOutOfBounds
            ELSE IF S.index_vec[k] # indices[1] THEN Bool(FALSE)
            ELSE IF k \notin DOMAIN S.index2_vec THEN IndexOutOfBounds
            ELSE Bool(S.index2_vec[k] = indices[2])
      [] OTHER -> ArityError

\* check if the indices are exact matches of sample k
is_exact(S, k, indices) ==
    CASE Len(indices) = 1 ->
            IF k \notin DOMAIN S.index_vec THEN IndexOutOfBounds
            ELSE Bool(S.index_vec[k] = indices[1])
      [] Len(indices) = 2 ->
            IF k \notin DOMAIN S.index_vec THEN IndexOutOfBounds
            ELSE IF S.index_vec[k] # indices[1] THEN Bool(FALSE)
            ELSE IF k \notin DOMAIN S.index2_vec THEN IndexOutOfBounds
            ELSE Bool(S.index2_vec[k] = indices[2])
      [] OTHER -> ArityError

\* check if the indices match any of the samples; with two indices the maps
\* are zipped, so only the samples present in both are looked at
is_any_sample(S, indices) ==
    CASE Len(indices) = 1 ->
            Bool(\E k \in DOMAIN S.index_map : indices[1] \in S.index_map[k])
      [] Len(indices) = 2 ->
            Bool(\E k \in DOMAIN S.index_map \cap DOMAIN S.index2_map :
                    /\ indices[1] \in S.index_map[k]
                    /\ indices[2] \in S.index2_map[k])
      [] OTHER -> ArityError

\* the indices lookups are made with
AAG == <<"A", "A", "G">>
QueryPool == {AAA, AAG, CCC}
Queries == SeqsUpTo(QueryPool, MaxArity)

\* The lookups read the Samples value and change nothing, so a behaviour
\* makes one of them, on any sample and with any indices.
GetSample ==
    /\ Returned
    /\ call = NoCall
    /\ \E k \in DOMAIN samples.index_map : \E indices \in Queries :
          call' = [op |-> "get_sample", i |-> k, indices |-> indices,
                   result |-> get_sample(samples, k, indices)]
    /\ UNCHANGED <<mapArgs, mapVars, readArgs, readVars, fnVars,
                 parVars, sheetVars>>

IsExact ==
    /\ Returned
    /\ call = NoCall
    /\ \E k \in DOMAIN samples.index_map : \E indices \in Queries :
          call' = [op |-> "is_exact", i |-> k, indices |-> indices,
                   result |-> is_exact(samples, k, indices)]
    /\ UNCHANGED <<mapArgs, mapVars, readArgs, readVars, fnVars,
                 parVars, sheetVars>>

IsAnySample ==
    /\ Returned
    /\ call = NoCall
    /\ \E indices \in Queries :
          call' = [op |-> "is_any_sample", i |-> 0, indices |-> indices,
                   result |-> is_any_sample(samples, indices)]
    /\ UNCHANGED <<mapArgs, mapVars, readArgs, readVars, fnVars,
                 parVars, sheetVars>>

\* the lanes the lookups are made on: one or two indices, radius 0 or 1
InitLookup ==
    /\ \E n \in 1..MaxSamples :
        /\ sample_names = [k \in 1..n |-> k]
        /\ project_names = [k \in 1..n |-> NoneP]
        /\ index_vec \in [1..n -> {AAA, CCC}]
        /\ index2_vec \in {<<>>} \cup [1..n -> {AAA, CCC}]
    /\ max_distance \in {0, 1}
    /\ MapStart
    /\ SheetIdle
    /\ ReadsIdle
    /\ FnIdle

NextLookup == make_sample_maps \/ GetSample \/ IsExact \/ IsAnySample

SpecLookup == InitLookup /\ [][NextLookup]_vars

----------------------------------------------------------------------------
(* extract_reads.rs: bytes to bases and qualities *)

\* the largest number of clusters of a tile, and of cycles (headers) of a call
MaxClusters == 3
MaxCycles == 2

\* u8
ByteMax == 255
\* b'A', b'C', b'G', b'T', b'N' and b'#'
BaseA == 65
BaseC == 67
BaseG == 71
BaseT == 84
BaseN == 78
Hash == 35
\* the quality at or below which a base is reported as N
LowQuality == 35

Min(a, b) == IF a <= b THEN a ELSE b

\* u8_to_base with the quality threshold exclusive: a base of quality 35 is
\* reported as it is
u8_to_base_ExclusiveThreshold(b, q) ==
    IF q < LowQuality THEN BaseN
    ELSE CASE b = 0 -> BaseA
           [] b = 1 -> BaseC
           [] b = 2 -> BaseG
           [] b = 3 -> BaseT
           [] OTHER -> BaseN

\* converts from 0..3 values to the appropriate base, or N if the qscore is
\* too low
u8_to_base(b, q) ==
    IF q <= LowQuality THEN BaseN
    ELSE CASE b = 0 -> BaseA
           [] b = 1 -> BaseC
           [] b = 2 -> BaseG
           [] b = 3 -> BaseT
           [] OTHER -> BaseN

\* the quality of bin b: the `to` field of the header's b-th (from, to) pair
decode_qscore(header, b) == header.bins[b + 1][2]

\* unpack_byte giving the high nibble's cluster when only the first filter
\* bit is set, and the low nibble's when only the second is
unpack_byte_SwappedNibbles(b, flt, header) ==
    LET q_1 == decode_qscore(header, (b \div 64) % 4)
        b_1 == u8_to_base((b \div 16) % 4, q_1)
        q_2 == decode_qscore(header, (b \div 4) % 4)
        b_2 == u8_to_base(b % 4, q_2)
    IN  CASE flt = <<TRUE, TRUE>> -> <<b_2, q_2, b_1, q_1>>
          [] flt = <<TRUE, FALSE>> -> <<b_1, q_1>>
          [] flt = <<FALSE, TRUE>> -> <<b_2, q_2>>
          [] OTHER -> <<>>

\* unpacks a single byte into the (base, quality) values of its two clusters
\* and keeps those the filter slice passes; a slice that is not two bits
\* long matches no pattern but the last
unpack_byte(b, flt, header) ==
    LET q_1 == decode_qscore(header, (b \div 64) % 4)
        b_1 == u8_to_base((b \div 16) % 4, q_1)
        q_2 == decode_qscore(header, (b \div 4) % 4)
        b_2 == u8_to_base(b % 4, q_2)
    IN  CASE flt = <<TRUE, TRUE>> -> <<b_2, q_2, b_1, q_1>>
          [] flt = <<TRUE, FALSE>> -> <<b_2, q_2>>
          [] flt = <<FALSE, TRUE>> -> <<b_1, q_1>>
          [] OTHER -> <<>>

\* the quality bins of a header: (from, to) pairs
QBins == <<<<0, 0>>, <<1, 11>>, <<2, 25>>, <<3, 37>>>>
QBinsEdge == <<<<0, 35>>, <<1, 36>>, <<2, 2>>, <<3, 70>>>>

\* unpack_byte applied on its own
UnpackByte ==
    /\ arg.op = "unpack_byte"
    /\ ret = <<>>
    /\ ret' = <<unpack_byte(arg.b, arg.filter, arg.header)>>
    /\ UNCHANGED <<mapArgs, mapVars, call, readArgs, readVars, arg,
                 parVars, sheetVars>>

InitUnpack ==
    /\ arg \in [op : {"unpack_byte"},
                b : 0..ByteMax,
                filter : SeqsUpTo(BOOLEAN, 2),
                header : [bins : {QBins, QBinsEdge}]]
    /\ ret = <<>>
    /\ sample_names = <<>>
    /\ project_names = <<>>
    /\ index_vec = <<>>
    /\ index2_vec = <<>>
    /\ max_distance = 0
    /\ pc = Idle
    /\ MapLocals
    /\ SheetIdle
    /\ ReadsIdle

NextUnpack == UnpackByte

SpecUnpack == InitUnpack /\ [][NextUnpack]_vars

\* u8_to_base applied on its own
U8ToBase ==
    /\ arg.op = "u8_to_base"
    /\ ret = <<>>
    /\ ret' = <<u8_to_base(arg.b, arg.q)>>
    /\ UNCHANGED <<mapArgs, mapVars, call, readArgs, readVars, arg,
                 parVars, sheetVars>>

\* every pair of u8 arguments
InitBase ==
    /\ arg \in [op : {"u8_to_base"}, b : 0..ByteMax, q : 0..ByteMax]
    /\ ret = <<>>
    /\ sample_names = <<>>
    /\ project_names = <<>>
    /\ index_vec = <<>>
    /\ index2_vec = <<>>
    /\ max_distance = 0
    /\ pc = Idle
    /\ MapLocals
    /\ SheetIdle
    /\ ReadsIdle

NextBase == U8ToBase

SpecBase == InitBase /\ [][NextBase]_vars

----------------------------------------------------------------------------
(* sample_data.rs: the neighbourhood of one index *)

\* the longest index, and the largest number of expansions
MaxLen == 3
MaxRadius == 2

\* the set of one sample after n rounds of the loop, each round expanding the
\* seed again instead of the set of the round before
expand_SeedEachRound(s, n) ==
    IF n = 0 THEN singleton_set(s) ELSE hamming_set(singleton_set(s))

\* the set of one sample after n rounds of the loop of make_sample_maps:
\* singleton_set of its index, then hamming_set of the set of the round
\* before
RECURSIVE expand(_, _)
expand(s, n) ==
    IF n = 0 THEN singleton_set(s) ELSE hamming_set(expand(s, n - 1))

\* the expansion of one index on its own
HammingSet ==
    /\ arg.op = "hamming_set"
    /\ ret = <<>>
    /\ ret' = <<expand(arg.s, arg.n)>>
    /\ UNCHANGED <<mapArgs, mapVars, call, readArgs, readVars, arg,
                 parVars, sheetVars>>

\* every index of one to MaxLen letters (the sample sheet reader drops empty
\* indices) and every number of rounds
InitHamming ==
    /\ arg \in [op : {"hamming_set"},
                s : SeqsUpTo(Sigma, MaxLen) \ {<<>>},
                n : 0..MaxRadius]
    /\ ret = <<>>
    /\ sample_names = <<>>
    /\ project_names = <<>>
    /\ index_vec = <<>>
    /\ index2_vec = <<>>
    /\ max_distance = 0
    /\ pc = Idle
    /\ MapLocals
    /\ SheetIdle
    /\ ReadsIdle

NextHamming == HammingSet

SpecHamming == InitHamming /\ [][NextHamming]_vars

----------------------------------------------------------------------------
(* extract_reads.rs: tiles to rows of the output array *)

\* A header holds, per tile, the size its block decompresses to, and stands
\* for its file: whether the block can be opened, sought and read, and the
\* bytes its gzip members decode to.

\* extract tile t (counted from 0) and return its decompressed bytes:
\* read_exact fills a buffer of uncompressed_size bytes from the decoder and
\* fails when the stream ends before the buffer is full
extract_tiles(header, t) ==
    LET uncompressed_size == header.uncompressed_size[t + 1]
        decoded == header.decoded[t + 1]
    IN  IF ~header.readable[t + 1]
          THEN [ok |-> FALSE, bytes |-> <<>>]
        ELSE IF Len(decoded) < uncompressed_size
          THEN [ok |-> FALSE, bytes |-> <<>>]
        ELSE [ok |-> TRUE, bytes |-> SubSeq(decoded, 1, uncompressed_size)]

\* filter.chunks(2): the c-th slice of two bits, the last one of one bit when
\* the filter is of odd length
chunk(flt, c) == SubSeq(flt, 2 * c - 1, Min(2 * c, Len(flt)))
n_chunks(flt) == (Len(flt) + 1) \div 2

\* bytes.zip(filter.chunks(2)).flat_map(unpack_byte), from the k-th pair on
RECURSIVE unpack_from(_, _, _, _)
unpack_from(bytes, flt, header, k) ==
    IF k > Min(Len(bytes), n_chunks(flt)) THEN <<>>
    ELSE unpack_byte(bytes[k], chunk(flt, k), header)
            \o unpack_from(bytes, flt, header, k + 1)

\* ArrayView::from_shape((n, 2), byte_vec): the first n pairs of byte_vec
from_shape(n, byte_vec) == [k \in 1..n |-> <<byte_vec[2 * k - 1], byte_vec[2 * k]>>]

\* process_tiles on one row (bq_array) of n clusters: the row is left as it
\* is when the tile cannot be extracted; else the unpacked, filtered values
\* are assigned to it, and the unwrap of from_shape panics when they are
\* fewer than the row holds
process_tiles(bq_array, header, flt, t) ==
    LET got == extract_tiles(header, t)
        byte_vec == unpack_from(got.bytes, flt, header, 1)
    IN  IF ~got.ok THEN [panic |-> FALSE, row |-> bq_array]
        ELSE IF Len(byte_vec) < 2 * Len(bq_array)
          THEN [panic |-> TRUE, row |-> bq_array]
        ELSE [panic |-> FALSE, row |-> from_shape(Len(bq_array), byte_vec)]

\* the number of true bits of pf_filter
n_pf == Cardinality({k \in DOMAIN pf_filter : pf_filter[k]})
n_cycles == Len(headers)

\* the output array, every cluster of every cycle at (N, #)
Allocate ==
    /\ rpc = "start"
    /\ rpc' = "rows"
    /\ out_array' = [c \in 1..n_cycles |-> [k \in 1..n_pf |-> <<BaseN, Hash>>]]
    /\ UNCHANGED <<mapArgs, mapVars, call, readArgs, row, fnVars,
                 parVars, sheetVars>>

\* the loop over the rows zipped with the headers: the next cycle's row
ProcessTiles ==
    /\ rpc = "rows"
    /\ row < n_cycles
    /\ row' = row + 1
    /\ LET h == headers[row + 1]
           h_filter == IF h.non_pf_clusters_excluded THEN pf_filter ELSE filter
           done == process_tiles(out_array[row + 1], h, h_filter, tile)
       IN  IF done.panic
             THEN /\ rpc' = "panicked"
                  /\ UNCHANGED out_array
             ELSE /\ rpc' = "rows"
                  /\ out_array' = [out_array EXCEPT ![row + 1] = done.row]
    /\ UNCHANGED <<mapArgs, mapVars, call, readArgs, fnVars,
                 parVars, sheetVars>>

\* out_array is returned
ReturnReads ==
    /\ rpc = "rows"
    /\ row = n_cycles
    /\ rpc' = "done"
    /\ UNCHANGED <<mapArgs, mapVars, call, readArgs, row, out_array, fnVars,
                 parVars, sheetVars>>

extract_reads == Allocate \/ ProcessTiles \/ ReturnReads

\* the bytes tiles are made of: 0xD4 and 0xFE
BytePool == {212, 254}

\* the byte streams a block of nb bytes may decode to: nb bytes, or one less
Streams(nb) ==
    [1..nb -> BytePool] \cup (IF nb > 0 THEN {[k \in 1..(nb - 1) |-> 212]} ELSE {})

\* the headers of the one-tile files that hold `clusters` clusters, two a byte
HeadersOf(clusters, excluded) ==
    LET nb == (clusters + 1) \div 2
    IN  [bins : {QBins},
         non_pf_clusters_excluded : {excluded},
         uncompressed_size : {<<nb>>},
         readable : {<<TRUE>>},
         decoded : {<<d>> : d \in Streams(nb)}]
        \cup
        [bins : {QBins},
         non_pf_clusters_excluded : {excluded},
         uncompressed_size : {<<nb>>},
         readable : {<<FALSE>>},
         decoded : {<<[k \in 1..nb |-> 212]>>}]

\* one tile of any filter, pf_filter its true bits, and per cycle a file that
\* holds either all clusters or the passing ones only
InitReads ==
    /\ filter \in SeqsUpTo(BOOLEAN, MaxClusters)
    /\ pf_filter = [k \in 1..Cardinality({j \in DOMAIN filter : filter[j]}) |-> TRUE]
    /\ tile = 0
    /\ headers \in SeqsUpTo(HeadersOf(Len(filter), FALSE)
                            \cup HeadersOf(Len(pf_filter), TRUE), MaxCycles)
    /\ rpc = "start"
    /\ row = 0
    /\ out_array = <<>>
    /\ sample_names = <<>>
    /\ project_names = <<>>
    /\ index_vec = <<>>
    /\ index2_vec = <<>>
    /\ max_distance = 0
    /\ pc = Idle
    /\ MapLocals
    /\ SheetIdle
    /\ FnIdle

NextReads == extract_reads

SpecReads == InitReads /\ [][NextReads]_vars

----------------------------------------------------------------------------
(* extract_reads.rs: extract_tiles on its own *)

\* the largest uncompressed_size of a tile
MaxBytes == 2

\* extract_tiles applied on its own
ExtractTiles ==
    /\ arg.op = "extract_tiles"
    /\ ret = <<>>
    /\ ret' = <<extract_tiles(arg.header, arg.i)>>
    /\ UNCHANGED <<mapArgs, mapVars, call, readArgs, readVars, arg,
                 parVars, sheetVars>>

\* the headers of files of two tiles: per tile any expected size, whether its
\* block can be read, and a stream that decodes to fewer bytes than expected,
\* as many, or more
TileHeaders ==
    [uncompressed_size : [1..2 -> 0..MaxBytes],
     readable : [1..2 -> BOOLEAN],
     decoded : [1..2 -> SeqsUpTo(BytePool, MaxBytes + 1)]]

InitTile ==
    /\ arg \in [op : {"extract_tiles"}, header : TileHeaders, i : 0..1]
    /\ ret = <<>>
    /\ sample_names = <<>>
    /\ project_names = <<>>
    /\ index_vec = <<>>
    /\ index2_vec = <<>>
    /\ max_distance = 0
    /\ pc = Idle
    /\ MapLocals
    /\ SheetIdle
    /\ ReadsIdle

NextTile == ExtractTiles

SpecTile == InitTile /\ [][NextTile]_vars

----------------------------------------------------------------------------
(* cbcl_decoder.rs: the header of a CBCL file, and the blocks behind it *)

\* the largest number of quality bins and of tile records of a file
MaxBins == 2
MaxTiles == 2

\* read_u16 / read_u32::<LittleEndian>: the w bytes of rdr from position pos
\* (counted from 1), least significant first
RECURSIVE read_le(_, _, _)
read_le(rdr, pos, w) ==
    IF w = 0 THEN 0 ELSE rdr[pos] + 256 * read_le(rdr, pos + 1, w - 1)

\* CBCLHeader::from_reader: the fields in the order of the file; every read
\* ends the call with an error when the input ends before it, and nothing
\* else does
from_reader(rdr) ==
    IF Len(rdr) < 12 THEN [ok |-> FALSE, header |-> <<>>]
    ELSE
      LET version == read_le(rdr, 1, 2)
          header_size == read_le(rdr, 3, 4)
          bits_per_basecall == rdr[7]
          bits_per_qscore == rdr[8]
          number_of_bins == read_le(rdr, 9, 4)
          tiles_at == 12 + 8 * number_of_bins
      IN  IF Len(rdr) < tiles_at + 4 THEN [ok |-> FALSE, header |-> <<>>]
          ELSE
            LET bins == [b \in 1..number_of_bins |->
                            <<read_le(rdr, 8 * b + 5, 4), read_le(rdr, 8 * b + 9, 4)>>]
                num_tile_records == read_le(rdr, tiles_at + 1, 4)
                flag_at == tiles_at + 4 + 16 * num_tile_records
            IN  IF Len(rdr) < flag_at + 1 THEN [ok |-> FALSE, header |-> <<>>]
                ELSE
                  LET tile_offsets ==
                        [t \in 1..num_tile_records |->
                            [f \in 1..4 |->
                                read_le(rdr, tiles_at + 16 * t + 4 * f - 15, 4)]]
                  IN  [ok |-> TRUE,
                       header |-> <<[version |-> version,
                                     header_size |-> header_size,
                                     bits_per_basecall |-> bits_per_basecall,
                                     bits_per_qscore |-> bits_per_qscore,
                                     number_of_bins |-> number_of_bins,
                                     bins |-> bins,
                                     num_tile_records |-> num_tile_records,
                                     tile_offsets |-> tile_offsets,
                                     non_PF_clusters_excluded |-> rdr[flag_at + 1]]>>]

\* cbcl_decoder: the header of the file, or a panic on the unwrap of the
\* reader's error
cbcl_decoder(rdr) ==
    LET cbcl == from_reader(rdr)
    IN  [panic |-> ~cbcl.ok, header |-> cbcl.header]

\* the sum of the first n members of a sequence of numbers
RECURSIVE SumTo(_, _)
SumTo(sizes, n) == IF n = 0 THEN 0 ELSE SumTo(sizes, n - 1) + sizes[n]

\* the per-tile fields extract_tiles reads, derived from a header: the sizes
\* of each tile's block, and start_pos by prefix sum from header_size
header_uncompressed_size(header) ==
    [t \in 1..Len(header.tile_offsets) |-> header.tile_offsets[t][3]]
header_compressed_size(header) ==
    [t \in 1..Len(header.tile_offsets) |-> header.tile_offsets[t][4]]
header_start_pos(header) ==
    [t \in 1..Len(header.tile_offsets) |->
        header.header_size + SumTo(header_compressed_size(header), t - 1)]

\* the first half of extract_tiles with as many bytes read as the tile
\* decompresses to
read_buffer_UncompressedSize(header, cbcl, t) ==
    LET at == header_start_pos(header)[t + 1]
        size == header_uncompressed_size(header)[t + 1]
    IN  IF Len(cbcl) < at + size
          THEN [ok |-> FALSE, bytes |-> <<>>]
        ELSE [ok |-> TRUE, bytes |-> SubSeq(cbcl, at + 1, at + size)]

\* the first half of extract_tiles, on the bytes of the file (cbcl): seek to
\* start_pos[t] and read_exact compressed_size[t] bytes, which fails when the
\* file ends before them
read_buffer(header, cbcl, t) ==
    LET at == header_start_pos(header)[t + 1]
        size == header_compressed_size(header)[t + 1]
    IN  IF Len(cbcl) < at + size
          THEN [ok |-> FALSE, bytes |-> <<>>]
        ELSE [ok |-> TRUE, bytes |-> SubSeq(cbcl, at + 1, at + size)]

\* n written in w bytes, least significant first
le_bytes(n, w) == [k \in 1..w |-> (n \div (256 ^ (k - 1))) % 256]

RECURSIVE Concat(_)
Concat(seqs) == IF seqs = <<>> THEN <<>> ELSE Head(seqs) \o Concat(Tail(seqs))

\* the files: the fields of a header, whatever the bits per basecall and per
\* quality and the number of bins, tiles 1101, 1102, ... of one or two
\* compressed bytes for four or two uncompressed ones, and zero or two bytes
\* between the last field and the first block
Files ==
    [bits_per_basecall : {2, 3},
     bits_per_qscore : {2, 3},
     number_of_bins : 0..MaxBins,
     compressed : SeqsUpTo(1..2, MaxTiles),
     non_PF_clusters_excluded : {0, 1},
     padding : {0, 2}]

\* the length of the fields of the header of a file
FieldsLen(file) == 17 + 8 * file.number_of_bins + 16 * Len(file.compressed)

\* the compressed block of tile t as it is written to the file: each byte
\* tells its tile and its place in the block
BlockOf(file, t) == [k \in 1..file.compressed[t] |-> 16 * t + k]

\* the bytes of a file
BytesOf(file) ==
    le_bytes(1, 2)
    \o le_bytes(FieldsLen(file) + file.padding, 4)
    \o <<file.bits_per_basecall, file.bits_per_qscore>>
    \o le_bytes(file.number_of_bins, 4)
    \o Concat([b \in 1..file.number_of_bins |->
                  le_bytes(QBins[b][1], 4) \o le_bytes(QBins[b][2], 4)])
    \o le_bytes(Len(file.compressed), 4)
    \o Concat([t \in 1..Len(file.compressed) |->
                  le_bytes(1100 + t, 4) \o le_bytes(4 * (3 - file.compressed[t]), 4)
                  \o le_bytes(2 * (3 - file.compressed[t]), 4)
                  \o le_bytes(file.compressed[t], 4)])
    \o <<file.non_PF_clusters_excluded>>
    \o [k \in 1..file.padding |-> 0]
    \o Concat([t \in 1..Len(file.compressed) |-> BlockOf(file, t)])

\* the header of the file is decoded
CbclDecoder ==
    /\ arg.op = "cbcl_decoder"
    /\ ret = <<>>
    /\ ret' = <<cbcl_decoder(arg.cbcl)>>
    /\ UNCHANGED <<mapArgs, mapVars, call, readArgs, readVars, arg,
                 parVars, sheetVars>>

\* the block of one of the tiles of a decoded header is read from the file
ReadBuffer ==
    /\ arg.op = "cbcl_decoder"
    /\ Len(ret) = 1
    /\ ~ret[1].panic
    /\ \E t \in 0..(MaxTiles - 1) :
        /\ t < ret[1].header[1].num_tile_records
        /\ ret' = Append(ret, [i |-> t, read |-> read_buffer(ret[1].header[1], arg.cbcl, t)])
    /\ UNCHANGED <<mapArgs, mapVars, call, readArgs, readVars, arg,
                 parVars, sheetVars>>

\* a file, whole or cut short at any byte
InitHeader ==
    /\ \E file \in Files :
        LET bytes == BytesOf(file)
        IN  \E n \in 0..Len(bytes) :
                arg = [op |-> "cbcl_decoder", file |-> file, cbcl |-> SubSeq(bytes, 1, n)]
    /\ ret = <<>>
    /\ sample_names = <<>>
    /\ project_names = <<>>
    /\ index_vec = <<>>
    /\ index2_vec = <<>>
    /\ max_distance = 0
    /\ pc = Idle
    /\ MapLocals
    /\ SheetIdle
    /\ ReadsIdle

NextHeader == CbclDecoder \/ ReadBuffer

SpecHeader == InitHeader /\ [][NextHeader]_vars

----------------------------------------------------------------------------
(* sample_data.rs: read_samplesheet *)

\* the largest number of sample rows of a sheet
MaxRows == 2

MsgNoSamples == "No samples found in samplesheet"
MsgNoSampleName == "Samplesheet does not have a Sample_Name column"
MsgNoIndex == "Samplesheet does not have an Index column"
\* the unwrap of a lane that is not a number, and of a missing sample name
MsgParseInt == "ParseIntError"
MsgUnwrapNone == "called Option::unwrap() on a None value"

\* skip_while(|r| &r[0] != "[Data]"): the records from the first one on whose
\* first field is [Data]
RECURSIVE skip_while(_)
skip_while(records) ==
    IF records = <<>> THEN <<>>
    ELSE IF Head(records)[1] # "[Data]" THEN skip_while(Tail(records))
    ELSE records

\* row_set.contains(&column)
contains(row_set, column) == \E k \in DOMAIN row_set : row_set[k] = column

\* record.get(&column) of the map collected from the header zipped with a
\* row: no value when the header has no such column within the length of the
\* row, else the field under the last column of that name
get(header, r, column) ==
    LET ks == {k \in 1..Min(Len(header), Len(r)) : header[k] = column}
    IN  IF ks = {} THEN <<>>
        ELSE <<r[CHOOSE k \in ks : \A j \in ks : j <= k]>>

\* lane.parse::<usize>() of the fields that stand in Lane columns
parse(field) ==
    CASE field = "0" -> <<0>>
      [] field = "1" -> <<1>>
      [] field = "2" -> <<2>>
      [] OTHER -> <<>>

\* idx.as_bytes().to_vec() of the fields that stand in index columns
as_bytes(field) ==
    CASE field = "AAA" -> AAA
      [] field = "AAC" -> AAC
      [] field = "CCC" -> CCC

\* the four vectors of a lane that has no sample yet
NewLane == [sample_names |-> <<>>, project_names |-> <<>>,
            sample_idx |-> <<>>, sample_idx2 |-> <<>>]

\* the vectors of a lane with the record of one more sample row pushed:
\* its name, its project or None, and its indices when they are not empty
push(vecs, header, r) ==
    LET project_name == get(header, r, "Sample_Project")
        idx == get(header, r, "Index")
        idx2 == get(header, r, "Index2")
    IN  [sample_names |-> Append(vecs.sample_names, get(header, r, "Sample_Name")[1]),
         project_names |->
            Append(vecs.project_names,
                   IF project_name # <<>> /\ project_name[1] # ""
                     THEN project_name[1] ELSE NoneP),
         sample_idx |->
            IF idx # <<>> /\ idx[1] # ""
              THEN Append(vecs.sample_idx, as_bytes(idx[1])) ELSE vecs.sample_idx,
         sample_idx2 |->
            IF idx2 # <<>> /\ idx2[1] # ""
              THEN Append(vecs.sample_idx2, as_bytes(idx2[1])) ELSE vecs.sample_idx2]

\* ReadRows without the check for the Index column
ReadRows_NoIndexCheck ==
    /\ spc = "start"
    /\ rows' = skip_while(sheet)
    /\ IF ~(Len(rows') > 2)
         THEN spc' = "panicked" /\ err' = MsgNoSamples
       ELSE IF ~contains(rows'[2], "Sample_Name")
         THEN spc' = "panicked" /\ err' = MsgNoSampleName
       ELSE spc' = "collect" /\ err' = err
    /\ UNCHANGED <<mapArgs, pc, i, index_hash_sets, index2_hash_sets, samples,
                   call, readArgs, readVars, fnVars, parVars,
                   sheet, n_records, lanes, lane, sample_data>>

\* the rows from the [Data] row on are collected, at least one sample row is
\* asserted, and the row after the [Data] row is checked for the required
\* columns
ReadRows ==
    /\ spc = "start"
    /\ rows' = skip_while(sheet)
    /\ IF ~(Len(rows') > 2)
         THEN spc' = "panicked" /\ err' = MsgNoSamples
       ELSE IF ~contains(rows'[2], "Sample_Name")
         THEN spc' = "panicked" /\ err' = MsgNoSampleName
       ELSE IF ~contains(rows'[2], "Index")
         THEN spc' = "panicked" /\ err' = MsgNoIndex
       ELSE spc' = "collect" /\ err' = err
    /\ UNCHANGED <<mapArgs, pc, i, index_hash_sets, index2_hash_sets, samples,
                   call, readArgs, readVars, fnVars, parVars,
                   sheet, n_records, lanes, lane, sample_data>>

\* CollectRecord with every record pushed to lane 0
CollectRecord_OneBigLane ==
    /\ spc = "collect"
    /\ IF n_records < Len(rows) - 2
         THEN LET header == rows[2]
                  r == rows[n_records + 3]
                  l == 0
                  vecs == IF l \in DOMAIN lanes THEN lanes[l] ELSE NewLane
              IN  /\ spc' = "collect"
                  /\ err' = err
                  /\ n_records' = n_records + 1
                  /\ lanes' = [k \in DOMAIN lanes \cup {l} |->
                                  IF k = l THEN push(vecs, header, r) ELSE lanes[k]]
         ELSE /\ spc' = "lanes"
              /\ UNCHANGED <<err, n_records, lanes>>
    /\ UNCHANGED <<mapArgs, pc, i, index_hash_sets, index2_hash_sets, samples,
                   call, readArgs, readVars, fnVars, parVars,
                   sheet, rows, lane, sample_data>>

\* the loop over the rows after the header: the next record goes to the
\* vectors of its lane, lane 0 when it has no Lane field
CollectRecord ==
    /\ spc = "collect"
    /\ IF n_records < Len(rows) - 2
         THEN LET header == rows[2]
                  r == rows[n_records + 3]
                  lane_field == get(header, r, "Lane")
              IN  IF lane_field # <<>> /\ parse(lane_field[1]) = <<>>
                    THEN /\ spc' = "panicked"
                         /\ err' = MsgParseInt
                         /\ UNCHANGED <<n_records, lanes>>
                  ELSE IF get(header, r, "Sample_Name") = <<>>
                    THEN /\ spc' = "panicked"
                         /\ err' = MsgUnwrapNone
                         /\ UNCHANGED <<n_records, lanes>>
                  ELSE
                    LET l == IF lane_field = <<>> THEN 0 ELSE parse(lane_field[1])[1]
                        vecs == IF l \in DOMAIN lanes THEN lanes[l] ELSE NewLane
                    IN  /\ spc' = "collect"
                        /\ err' = err
                        /\ n_records' = n_records + 1
                        /\ lanes' = [k \in DOMAIN lanes \cup {l} |->
                                        IF k = l THEN push(vecs, header, r) ELSE lanes[k]]
         ELSE /\ spc' = "lanes"
              /\ UNCHANGED <<err, n_records, lanes>>
    /\ UNCHANGED <<mapArgs, pc, i, index_hash_sets, index2_hash_sets, samples,
                   call, readArgs, readVars, fnVars, parVars,
                   sheet, rows, lane, sample_data>>

\* lanes.iter().map(..): make_sample_maps is called on the vectors of a lane
\* that has no Samples yet, in whatever order the map yields the lanes
CallLane ==
    /\ spc = "lanes"
    /\ \E l \in DOMAIN lanes \ DOMAIN sample_data :
        /\ lane' = l
        /\ sample_names' = lanes[l].sample_names
        /\ project_names' = lanes[l].project_names
        /\ index_vec' = lanes[l].sample_idx
        /\ index2_vec' = lanes[l].sample_idx2
    /\ spc' = "call"
    /\ pc' = "start"
    /\ i' = 0
    /\ index_hash_sets' = <<>>
    /\ index2_hash_sets' = <<>>
    /\ samples' = NoSamples
    /\ UNCHANGED <<max_distance, err, call, readArgs, readVars, fnVars, parVars,
                   sheet, rows, n_records, lanes, sample_data>>

\* the call has returned: its Samples is collected under its lane
StoreLane ==
    /\ spc = "call"
    /\ pc = "done"
    /\ sample_data' = [k \in DOMAIN sample_data \cup {lane} |->
                          IF k = lane THEN samples ELSE sample_data[k]]
    /\ spc' = "lanes"
    /\ pc' = Idle
    /\ UNCHANGED <<mapArgs, i, index_hash_sets, index2_hash_sets, err, samples,
                   call, readArgs, readVars, fnVars, parVars,
                   sheet, rows, n_records, lanes, lane>>

\* the call has panicked, and read_samplesheet with it
LanePanic ==
    /\ spc = "call"
    /\ pc = "failed"
    /\ spc' = "panicked"
    /\ UNCHANGED <<mapArgs, mapVars, call, readArgs, readVars, fnVars, parVars,
                   sheet, rows, n_records, lanes, lane, sample_data>>

\* every lane has its Samples: sample_data is returned
ReturnSheet ==
    /\ spc = "lanes"
    /\ DOMAIN lanes = DOMAIN sample_data
    /\ spc' = "done"
    /\ UNCHANGED <<mapArgs, mapVars, call, readArgs, readVars, fnVars, parVars,
                   sheet, rows, n_records, lanes, lane, sample_data>>

read_samplesheet ==
    \/ ReadRows
    \/ CollectRecord
    \/ CallLane
    \/ make_sample_maps
    \/ StoreLane
    \/ LanePanic
    \/ ReturnSheet

\* the names of the sample rows, by their place in the sheet
NameOfRow == <<"sample_1", "sample_2", "sample_3">>

\* the sample rows: lane, name, index (which may be empty), second index
SampleRows ==
    UNION {[1..m -> {"1", "2"} \X {"AAA", "AAC", ""}] : m \in 0..MaxRows}

\* the header rows: all columns, no second index, no Lane column, no
\* Sample_Name column, no Index column, neither of the two
HeaderRows ==
    {<<"Lane", "Sample_Name", "Index", "Index2">>,
     <<"Lane", "Sample_Name", "Index", "Description">>,
     <<"Sample_Well", "Sample_Name", "Index", "Index2">>,
     <<"Lane", "Sample_ID", "Index", "Index2">>,
     <<"Lane", "Sample_Name", "I7_Index_ID", "Index2">>,
     <<"Lane", "Sample_ID", "I7_Index_ID", "Index2">>}

\* the rows that may stand before the [Data] row: none, or two of which the
\* second has [Data] as a field that is not its first
Preambles == {<<>>, <<<<"[Header]">>, <<"Experiment Name", "[Data]">>>>}

\* a sheet: preamble, the [Data] row or none, header row, sample rows
InitSheet ==
    /\ \E preamble \in Preambles, data \in {<<>>, <<<<"[Data]">>>>},
          header \in HeaderRows, sample_rows \in SampleRows :
            sheet = preamble \o data \o <<header>>
                    \o [k \in DOMAIN sample_rows |->
                          <<sample_rows[k][1], NameOfRow[k], sample_rows[k][2], "CCC">>]
    /\ max_distance \in {0, 1}
    /\ spc = "start"
    /\ rows = <<>>
    /\ n_records = 0
    /\ lanes = <<>>
    /\ lane = 0
    /\ sample_data = <<>>
    /\ sample_names = <<>>
    /\ project_names = <<>>
    /\ index_vec = <<>>
    /\ index2_vec = <<>>
    /\ pc = Idle
    /\ MapLocals
    /\ ReadsIdle
    /\ FnIdle

NextSheet == read_samplesheet

SpecSheet == InitSheet /\ [][NextSheet]_vars

----------------------------------------------------------------------------
(* sample_data.rs: the rounds of make_sample_maps, worker by worker *)

\* the place of a sample in the vector a par_iter collects: its worker has
\* not started, is running, or has delivered its set
Pending == [state |-> "pending", set |-> {}]
Running == [state |-> "running", set |-> {}]
Done(S) == [state |-> "done", set |-> S]

\* every worker of a vector has delivered
Collected(new) == \A k \in DOMAIN new : new[k].state = "done"

\* the sets of a collected vector
SetsOf(new) == [k \in DOMAIN new |-> new[k].set]

\* the head of the loop: past max_distance the loop is left, else the
\* workers over index_hash_sets are handed out
ForkIndex ==
    /\ pc = "loop"
    /\ IF i < max_distance
         THEN /\ i' = i + 1
              /\ pc' = "par_index"
              /\ new_sets' = [k \in DOMAIN index_hash_sets |-> Pending]
              /\ new_sets2' = <<>>
         ELSE /\ pc' = "return"
              /\ UNCHANGED <<i, new_sets, new_sets2>>
    /\ UNCHANGED <<mapArgs, index_hash_sets, index2_hash_sets, err, samples,
                   call, readArgs, readVars, fnVars, sheetVars>>

\* a worker takes the set of sample k
StartIndex(k) ==
    /\ pc = "par_index"
    /\ k \in DOMAIN new_sets
    /\ new_sets[k].state = "pending"
    /\ new_sets' = [new_sets EXCEPT ![k] = Running]
    /\ UNCHANGED <<mapArgs, mapVars, new_sets2, call, readArgs, readVars, fnVars,
                   sheetVars>>

\* the worker of sample k delivers hamming_set of its set to place k
FinishIndex(k) ==
    /\ pc = "par_index"
    /\ k \in DOMAIN new_sets
    /\ new_sets[k].state = "running"
    /\ new_sets' = [new_sets EXCEPT ![k] = Done(hamming_set(index_hash_sets[k]))]
    /\ UNCHANGED <<mapArgs, mapVars, new_sets2, call, readArgs, readVars, fnVars,
                   sheetVars>>

\* collect() has returned new_index_hash_sets: the workers over
\* index2_hash_sets are handed out
ForkIndex2 ==
    /\ pc = "par_index"
    /\ Collected(new_sets)
    /\ pc' = "par_index2"
    /\ new_sets2' = [k \in DOMAIN index2_hash_sets |-> Pending]
    /\ UNCHANGED <<mapArgs, i, index_hash_sets, index2_hash_sets, err, samples,
                   new_sets, call, readArgs, readVars, fnVars, sheetVars>>

StartIndex2(k) ==
    /\ pc = "par_index2"
    /\ k \in DOMAIN new_sets2
    /\ new_sets2[k].state = "pending"
    /\ new_sets2' = [new_sets2 EXCEPT ![k] = Running]
    /\ UNCHANGED <<mapArgs, mapVars, new_sets, call, readArgs, readVars, fnVars,
                   sheetVars>>

FinishIndex2(k) ==
    /\ pc = "par_index2"
    /\ k \in DOMAIN new_sets2
    /\ new_sets2[k].state = "running"
    /\ new_sets2' = [new_sets2 EXCEPT ![k] = Done(hamming_set(index2_hash_sets[k]))]
    /\ UNCHANGED <<mapArgs, mapVars, new_sets, call, readArgs, readVars, fnVars,
                   sheetVars>>

\* CheckConflict not waiting for the workers over index2_hash_sets
CheckConflict_NoJoin ==
    /\ pc = "par_index2"
    /\ IF check_conflict(sample_names, SetsOf(new_sets), SetsOf(new_sets2))
         THEN /\ pc' = "return"
              /\ UNCHANGED <<index_hash_sets, index2_hash_sets>>
         ELSE /\ pc' = "loop"
              /\ index_hash_sets' = SetsOf(new_sets)
              /\ index2_hash_sets' = SetsOf(new_sets2)
    /\ UNCHANGED <<mapArgs, i, err, samples, parVars, call, readArgs, readVars,
                   fnVars, sheetVars>>

\* collect() has returned new_index2_hash_sets: the conflict check on the two
\* new vectors, which ends the loop or makes them the sets of the lane
CheckConflict ==
    /\ pc = "par_index2"
    /\ Collected(new_sets2)
    /\ IF check_conflict(sample_names, SetsOf(new_sets), SetsOf(new_sets2))
         THEN /\ pc' = "return"
              /\ UNCHANGED <<index_hash_sets, index2_hash_sets>>
         ELSE /\ pc' = "loop"
              /\ index_hash_sets' = SetsOf(new_sets)
              /\ index2_hash_sets' = SetsOf(new_sets2)
    /\ UNCHANGED <<mapArgs, i, err, samples, parVars, call, readArgs, readVars,
                   fnVars, sheetVars>>

\* make_sample_maps with the workers of each round as steps of their own
make_sample_maps_par ==
    \/ Validate
    \/ CheckDistance0
    \/ ForkIndex
    \/ \E k \in 1..MaxSamples : StartIndex(k)
    \/ \E k \in 1..MaxSamples : FinishIndex(k)
    \/ ForkIndex2
    \/ \E k \in 1..MaxSamples : StartIndex2(k)
    \/ \E k \in 1..MaxSamples : FinishIndex2(k)
    \/ CheckConflict
    \/ Return

NextPar == make_sample_maps_par

SpecPar == InitIndex /\ [][NextPar]_vars

----------------------------------------------------------------------------
(* Properties of make_sample_maps *)

\* the number of positions at which two strings of one length differ
Dist(s, t) == Cardinality({k \in DOMAIN s : s[k] # t[k]})

\* the strings over Sigma of the length of s at Hamming distance <= r from s
Ball(s, r) == {t \in [DOMAIN s -> Sigma] : Dist(s, t) <= r}

\* the neighbourhoods of radius r of a vector of indices
BallsOf(vec, r) == [k \in DOMAIN vec |-> Ball(vec[k], r)]

\* samples j and k collide on the maps m and m2 (m2 empty: single-index lane)
Collide(m, m2, j, k) ==
    IF Len(m2) = 0
      THEN m[j] \cap m[k] # {}
      ELSE m[j] \cap m[k] # {} /\ m2[j] \cap m2[k] # {}

\* the conflict predicate on the arguments at radius r
ConflictAt(r) ==
    \E j \in DOMAIN index_vec : \E k \in DOMAIN index_vec :
        j # k /\ Collide(BallsOf(index_vec, r), BallsOf(index2_vec, r), j, k)

\* C1: in every Samples value returned by make_sample_maps no two distinct
\* samples collide: on a single-index lane their index sets are disjoint, on a
\* two-index lane their index sets and their index2 sets do not both intersect.
C1_NoCollision ==
    Returned =>
        \A j \in DOMAIN samples.index_map : \A k \in DOMAIN samples.index_map :
            j # k => ~Collide(samples.index_map, samples.index2_map, j, k)

\* a two-index lane returned at radius >= 1 whose index sets intersect while
\* its index2 sets keep the two samples apart
C1_Witness ==
    /\ Returned
    /\ Len(samples.index_map) >= 2
    /\ Len(samples.index2_map) >= 2
    /\ samples.index_map[1] \cap samples.index_map[2] # {}
    /\ Cardinality(samples.index2_map[1]) > 1

\* the radii up to max_distance at which the arguments do not conflict
FreeRadii == {r \in 0..max_distance : ~ConflictAt(r)}
RStar == CHOOSE r \in FreeRadii : \A q \in FreeRadii : q <= r

\* C2: the returned sets are, for index and index2 alike, the neighbourhoods
\* of radius r*, the largest r <= max_distance without conflict; the loop
\* stops at the first conflicting radius r* + 1 and tries none beyond it, and
\* runs to max_distance when no radius conflicts.
C2_LargestFreeRadius ==
    Returned =>
        /\ FreeRadii # {}
        /\ \A r \in 0..RStar : r \in FreeRadii
        /\ samples.index_map = BallsOf(index_vec, RStar)
        /\ samples.index2_map = BallsOf(index2_vec, RStar)
        /\ i = IF RStar < max_distance THEN RStar + 1 ELSE max_distance

\* a lane that conflicts first at radius 2 and is returned at radius 1
C2_Witness ==
    /\ Returned
    /\ Len(index_vec) >= 2
    /\ max_distance >= 2
    /\ ~ConflictAt(1)
    /\ ConflictAt(2)
    /\ i = 2
    /\ samples.index_map = BallsOf(index_vec, 1)

\* C3: in every returned Samples each sample's original index is in its
\* index set and, on a two-index lane, its original index2 in its index2 set.
C3_OriginalIncluded ==
    Returned =>
        /\ DOMAIN samples.index_map = DOMAIN index_vec
        /\ DOMAIN samples.index2_map = DOMAIN index2_vec
        /\ \A k \in DOMAIN index_vec : index_vec[k] \in samples.index_map[k]
        /\ \A k \in DOMAIN index2_vec : index2_vec[k] \in samples.index2_map[k]

\* a two-index lane returned at a radius >= 1
C3_Witness ==
    /\ Returned
    /\ Len(index2_vec) >= 1
    /\ max_distance >= 1
    /\ \E k \in DOMAIN samples.index_map : Cardinality(samples.index_map[k]) > 1

\* two distinct samples have the same index (and, on a two-index lane, the
\* same index2 as well)
Collide0 ==
    \E j \in DOMAIN index_vec : \E k \in DOMAIN index_vec :
        /\ j # k
        /\ index_vec[j] = index_vec[k]
        /\ Len(index2_vec) = 0
             \/ /\ j \in DOMAIN index2_vec
                /\ k \in DOMAIN index2_vec
                /\ index2_vec[j] = index2_vec[k]

\* every sample has a name of its own, an index and, when the lane has a
\* second index, an index2
EverySampleIndexed ==
    /\ Len(sample_names) = Len(index_vec)
    /\ Len(index2_vec) \in {0, Len(index_vec)}
    /\ Len(sample_names) = Cardinality(Range(sample_names))

FailsWithCollision ==
    /\ Panicked
    /\ err \in IndexCollision
    /\ i = 0
    /\ samples = NoSamples

\* C4 as stated: whenever two distinct samples collide at distance 0,
\* make_sample_maps fails with the index-collision error, before any
\* expansion and without a Samples value.
C4_AsStated ==
    (Finished /\ EverySampleIndexed /\ Collide0) => FailsWithCollision

\* the four shape rules of the arguments
ShapeOk ==
    /\ Len(index_vec) = Len(sample_names)
    /\ Len(index2_vec) = 0 \/ Len(index2_vec) = Len(index_vec)
    /\ LET named == {k \in DOMAIN sample_names :
                        k \in DOMAIN project_names /\ project_names[k] # NoneP}
       IN  named = {} \/ named = DOMAIN sample_names
    /\ \A j \in DOMAIN sample_names : \A k \in DOMAIN sample_names :
            sample_names[j] = sample_names[k] => j = k

\* C4 (amended): when the arguments pass the shape validation and two distinct
\* samples collide at distance 0, make_sample_maps fails with the
\* index-collision error, before any expansion step and without a Samples
\* value, for every max_distance.
C4_CollisionFatal ==
    (pc \notin {"start", "check0"} /\ ShapeOk /\ Collide0) => FailsWithCollision

\* a well-shaped two-index lane with a collision, run with max_distance >= 1
C4_Witness ==
    /\ Panicked
    /\ ShapeOk
    /\ Collide0
    /\ Len(index2_vec) >= 2
    /\ max_distance >= 1
    /\ err = MsgCollision

\* C5: whenever a shape rule is broken (index count differs from name count,
\* index2_vec neither empty nor full, some but not all samples with a project
\* name, a sample name used twice) make_sample_maps fails with the
\* malformed-sample-sheet error and produces no Samples.
C5_ShapeErrors ==
    (pc # "start" /\ ~ShapeOk) =>
        /\ Panicked
        /\ err \in MalformedSampleSheet
        /\ samples = NoSamples
        /\ index_hash_sets = <<>>

\* a lane that breaks only the last rule checked: a name used twice
C5_Witness ==
    /\ Panicked
    /\ err = MsgNamesUnique
    /\ Len(sample_names) = Len(index_vec)
    /\ Len(sample_names) >= 2

----------------------------------------------------------------------------
(* Properties of the lookups *)

Called(op) == call.op = op

TwoIndexLane == Len(samples.index2_map) > 0

\* C6: get_sample(i, [idx]) is true exactly when idx is in index_map[i], and
\* get_sample(i, [idx, idx2]) exactly when idx is in index_map[i] and idx2 in
\* index2_map[i]; otherwise the query is rejected (on a single-index lane,
\* which has no index2_map[i], a pair is never accepted).
C6_GetSample ==
    Called("get_sample") =>
        LET k == call.i
            q == call.indices
        IN  /\ Len(q) = 1 => call.result = Bool(q[1] \in samples.index_map[k])
            /\ Len(q) = 2 =>
                 /\ call.result = "true" <=>
                        /\ q[1] \in samples.index_map[k]
                        /\ k \in DOMAIN samples.index2_map
                        /\ q[2] \in samples.index2_map[k]
                 /\ TwoIndexLane => call.result \in {"true", "false"}

\* a pair whose index is sample i's and whose index2 is only another sample's
C6_Witness ==
    /\ Called("get_sample")
    /\ Len(call.indices) = 2
    /\ TwoIndexLane
    /\ call.indices[1] \in samples.index_map[call.i]
    /\ call.indices[2] \notin samples.index2_map[call.i]
    /\ \E k \in DOMAIN samples.index2_map : call.indices[2] \in samples.index2_map[k]
    /\ call.result = "false"

\* C7 as stated: on every lane and for every query of one or two indices,
\* is_any_sample gives the outcome of the disjunction of get_sample over the
\* samples: true exactly when some sample accepts, failing exactly when
\* get_sample fails.
C7_AnyIsDisjunction ==
    (Called("is_any_sample") /\ Len(call.indices) \in {1, 2}) =>
        LET each == {get_sample(samples, k, call.indices) :
                        k \in DOMAIN samples.index_map}
        IN  /\ call.result = "true" <=> "true" \in each
            /\ IsPanic(call.result) <=> (\E r \in each : IsPanic(r))

\* C8: get_sample, is_exact and is_any_sample fail with the arity error
\* whenever the number of indices is not 1 or 2, whatever the indices hold.
C8_ArityError ==
    (call.op # "none" /\ Len(call.indices) \notin {1, 2}) =>
        call.result = ArityError

\* is_exact called with no index at all
C8_Witness ==
    /\ Called("is_exact")
    /\ Len(call.indices) = 0
    /\ call.result = ArityError

----------------------------------------------------------------------------
(* Properties of unpack_byte *)

\* bit k of a byte
Bit(b, k) == (b \div (2 ^ k)) % 2

\* the two-bit field of a byte whose low bit is bit k
Field(b, k) == Bit(b, k) + 2 * Bit(b, k + 1)

\* the (base, quality) pair of basecall bits v and quality-bin index q
BaseQuality(header, v, q) ==
    <<u8_to_base(v, decode_qscore(header, q)), decode_qscore(header, q)>>

\* C10: unpack_byte takes cluster-0 from the low nibble (basecall bits 1:0,
\* quality index bits 3:2) and cluster-1 from the high nibble (bits 5:4 and
\* 7:6) and emits, cluster-0 first, the (base, quality) pair of exactly the
\* clusters whose filter bit is true.
C10_UnpackByte ==
    (arg.op = "unpack_byte" /\ ret # <<>> /\ Len(arg.filter) = 2) =>
        LET cluster0 == BaseQuality(arg.header, Field(arg.b, 0), Field(arg.b, 2))
            cluster1 == BaseQuality(arg.header, Field(arg.b, 4), Field(arg.b, 6))
        IN  ret[1] = (IF arg.filter[1] THEN cluster0 ELSE <<>>)
                        \o (IF arg.filter[2] THEN cluster1 ELSE <<>>)

\* byte 0xD4 with only cluster-0 passing: base 0 at quality 11, reported N
C10_Witness ==
    /\ arg.op = "unpack_byte"
    /\ arg.b = 212
    /\ arg.filter = <<TRUE, FALSE>>
    /\ arg.header.bins = QBins
    /\ ret = <<<<BaseN, 11>>>>

----------------------------------------------------------------------------
(* Properties of extract_reads *)

\* the call is over: it returned, or it panicked
ReadsOver == rpc \in {"done", "panicked"}

SentinelRow == [k \in 1..n_pf |-> <<BaseN, Hash>>]

\* the filter cycle c is read with
FilterOf(c) == IF headers[c].non_pf_clusters_excluded THEN pf_filter ELSE filter

\* the row of cycle c when its tile is processed on its own
RowAlone(c) == process_tiles(SentinelRow, headers[c], FilterOf(c), tile).row

\* C9 as stated: whatever the headers and whichever cycles fail to extract,
\* extract_reads returns a (cycles x n_pf x 2) array in which the rows of the
\* failed cycles are all (N, #) and the row of every other cycle holds what
\* it holds when no cycle fails.
C9_SentinelOnFailure ==
    ReadsOver =>
        /\ rpc = "done"
        /\ Len(out_array) = n_cycles
        /\ \A c \in 1..n_cycles :
            /\ Len(out_array[c]) = n_pf
            /\ out_array[c] = IF extract_tiles(headers[c], tile).ok
                                THEN RowAlone(c) ELSE SentinelRow

\* the (base, quality) values cycle c emits: its tile's bytes unpacked and
\* filtered
EmittedOf(c) ==
    unpack_from(extract_tiles(headers[c], tile).bytes, FilterOf(c), headers[c], 1)

\* the cycles whose row the loop has gone through
RowsDone == IF rpc = "start" THEN {} ELSE 1..row

\* C11 as stated: for a header with non_pf_clusters_excluded set and an
\* all-true pf_filter of any length n, odd or even, a cycle that extracts
\* emits exactly n clusters, as many as pf_filter has true bits, and its
\* output fits the (n_pf x 2) row: the row is assigned and nothing panics.
C11_AllPfClusterCount ==
    \A c \in RowsDone :
        (headers[c].non_pf_clusters_excluded /\ extract_tiles(headers[c], tile).ok) =>
            /\ Len(EmittedOf(c)) = 2 * n_pf
            /\ ~(rpc = "panicked" /\ c = row)

----------------------------------------------------------------------------
(* Properties of u8_to_base *)

\* the letters of the basecall values 0, 1, 2, 3
Letters == <<"A", "C", "G", "T">>

\* the byte of a letter
Ascii(c) ==
    CASE c = "A" -> 65 [] c = "C" -> 67 [] c = "G" -> 71 [] c = "T" -> 84
      [] c = "N" -> 78

\* C12: u8_to_base(b, q) returns 'N' for every b whenever q <= 35; for
\* q > 35 it maps b = 0, 1, 2, 3 one-to-one onto 'A', 'C', 'G', 'T' and
\* returns 'N' for every b >= 4.
C12_U8ToBase ==
    (arg.op = "u8_to_base" /\ ret # <<>>) =>
        /\ arg.q <= 35 => ret[1] = Ascii("N")
        /\ (arg.q > 35 /\ arg.b >= 4) => ret[1] = Ascii("N")
        /\ (arg.q > 35 /\ arg.b <= 3) => ret[1] = Ascii(Letters[arg.b + 1])

\* value 2 at quality 70 is G
C12_Witness ==
    /\ arg.op = "u8_to_base"
    /\ arg.b = 2
    /\ arg.q = 70
    /\ ret = <<Ascii("G")>>

----------------------------------------------------------------------------
(* Properties of hamming_set *)

\* the strings that differ from s at position k only
SubstitutionsAt(s, k) == {t \in [DOMAIN s -> Sigma] : {j \in DOMAIN s : s[j] # t[j]} = {k}}

\* C13: for every string s over {A,C,G,T,N}, hamming_set of the singleton {s}
\* has exactly 1 + 4|s| elements: s itself and, for each position, the four
\* strings that have one of the other four letters there.
C13_HammingSetSize ==
    (arg.op = "hamming_set" /\ ret # <<>> /\ arg.n = 1) =>
        /\ Cardinality(ret[1]) = 1 + 4 * Len(arg.s)
        /\ arg.s \in ret[1]
        /\ \A k \in DOMAIN arg.s :
            /\ Cardinality(SubstitutionsAt(arg.s, k)) = 4
            /\ SubstitutionsAt(arg.s, k) \subseteq ret[1]

\* the 13 neighbours of ANT
C13_Witness ==
    /\ arg.op = "hamming_set"
    /\ arg.s = <<"A", "N", "T">>
    /\ arg.n = 1
    /\ ret # <<>>
    /\ Cardinality(ret[1]) = 13
    /\ <<"A", "N", "N">> \in ret[1]

\* C14: hamming_set applied r+1 times to singleton_set(s) yields exactly the
\* strings over {A,C,G,T,N} of the length of s at Hamming distance <= r+1
\* from s, and every string of the result has the length of s.
C14_RadiusGrowsByOne ==
    (arg.op = "hamming_set" /\ ret # <<>> /\ arg.n >= 1) =>
        /\ ret[1] = Ball(arg.s, arg.n)
        /\ \A t \in ret[1] : Len(t) = Len(arg.s)

\* two rounds on ACG reach TCT, at distance 2, and not TTT, at distance 3
C14_Witness ==
    /\ arg.op = "hamming_set"
    /\ arg.s = <<"A", "C", "G">>
    /\ arg.n = 2
    /\ ret # <<>>
    /\ <<"T", "C", "T">> \in ret[1]
    /\ <<"T", "T", "T">> \notin ret[1]

----------------------------------------------------------------------------
(* Properties of extract_tiles *)

\* C15 as stated: extract_tile(header, i) fails whenever the stream of tile i
\* decodes to a number of bytes different from uncompressed_size[i], to fewer
\* (underflow) as well as to more (overflow), and returns bytes only when the
\* decoded length equals uncompressed_size[i].
C15_FailsOnLengthMismatch ==
    (arg.op = "extract_tiles" /\ ret # <<>>) =>
        LET decoded == arg.header.decoded[arg.i + 1]
            uncompressed_size == arg.header.uncompressed_size[arg.i + 1]
        IN  /\ Len(decoded) # uncompressed_size => ~ret[1].ok
            /\ ret[1].ok => Len(decoded) = uncompressed_size

----------------------------------------------------------------------------
(* Properties of the header reader *)

\* the header has been read, or the read has failed
HeaderRead == arg.op = "cbcl_decoder" /\ Len(ret) >= 1

\* the file ends before the last field of its header
ShortRead == Len(arg.cbcl) < FieldsLen(arg.file)

\* C16 as stated: the header reader fails with the malformed-header error and
\* returns no header on a short read, when bits_per_basecall is not 2, when
\* bits_per_qscore is not 2, and when number_of_bins is 0.
C16_MalformedHeader ==
    HeaderRead =>
        ((\/ ShortRead
          \/ arg.file.bits_per_basecall # 2
          \/ arg.file.bits_per_qscore # 2
          \/ arg.file.number_of_bins = 0)
            => ret[1].panic /\ ret[1].header = <<>>)

\* C17: for every parsed header start_pos[0] = header_size and
\* start_pos[i+1] = start_pos[i] + compressed_size[i], so extract_tile(header,
\* i) reads the compressed_size[i] bytes that begin right after the header
\* and the compressed blocks of all earlier tiles: the block of tile i, when
\* the file holds it whole, and nothing when it does not.
C17_StartPos ==
    (HeaderRead /\ ~ret[1].panic) =>
        LET header == ret[1].header[1]
            n == header.num_tile_records
        IN  /\ n > 0 => header_start_pos(header)[1] = header.header_size
            /\ \A t \in 1..(n - 1) :
                header_start_pos(header)[t + 1] = header_start_pos(header)[t] + header_compressed_size(header)[t]
            /\ Len(ret) = 2 =>
                LET t == ret[2].i + 1
                    before == FieldsLen(arg.file) + arg.file.padding
                                + Len(Concat([j \in 1..(t - 1) |-> BlockOf(arg.file, j)]))
                IN  IF Len(arg.cbcl) >= before + Len(BlockOf(arg.file, t))
                      THEN ret[2].read = [ok |-> TRUE, bytes |-> BlockOf(arg.file, t)]
                      ELSE ~ret[2].read.ok

\* the second tile's block of two bytes is read from behind the first tile's
\* block of one byte
C17_Witness ==
    /\ HeaderRead
    /\ Len(ret) = 2
    /\ arg.file.compressed = <<1, 2>>
    /\ arg.file.padding = 2
    /\ ret[2].i = 1
    /\ ret[2].read = [ok |-> TRUE, bytes |-> <<33, 34>>]

----------------------------------------------------------------------------
(* Properties of read_samplesheet *)

\* the sample rows of a lane (the field in the column named Lane, 0 when the
\* header has no such column) in the order of the sheet
RowsOfLane(l) ==
    LET header == rows[2]
        lane_at == {k \in DOMAIN header : header[k] = "Lane"}
        InLane(r) == IF lane_at = {} THEN l = 0
                     ELSE parse(r[CHOOSE k \in lane_at : TRUE]) = <<l>>
    IN  SelectSeq(SubSeq(rows, 3, Len(rows)), InLane)

\* the field of every row of a sequence under a column of the header
Column(rs, column) ==
    LET header == rows[2]
    IN  [k \in DOMAIN rs |-> rs[k][CHOOSE j \in DOMAIN header : header[j] = column]]

\* the largest radius up to d at which no two indices of a lane collide
RadiusOf(vec, vec2, d) ==
    LET Free == {r \in 0..d :
                    \A j \in DOMAIN vec : \A k \in DOMAIN vec :
                        j # k => ~Collide(BallsOf(vec, r), BallsOf(vec2, r), j, k)}
    IN  CHOOSE r \in Free : \A q \in Free : q <= r

\* the index vector of a lane of rows
IndexOf(rs, column) ==
    IF contains(rows[2], column)
      THEN [k \in DOMAIN rs |-> as_bytes(Column(rs, column)[k])]
      ELSE <<>>

\* the Samples of a lane as its own rows alone determine it
SamplesAlone(l) ==
    LET rs == RowsOfLane(l)
        vec == IndexOf(rs, "Index")
        vec2 == IndexOf(rs, "Index2")
        r == RadiusOf(vec, vec2, max_distance)
    IN  [sample_names |-> Column(rs, "Sample_Name"),
         project_names |-> [k \in DOMAIN rs |-> NoneP],
         index_vec |-> vec,
         index_map |-> BallsOf(vec, r),
         index2_vec |-> vec2,
         index2_map |-> BallsOf(vec2, r)]

\* C18: read_samplesheet builds each lane's Samples from the rows of that
\* lane only: the radius of a lane and its correction sets are what its own
\* rows give, whatever samples the other lanes hold, so that two samples
\* whose indices conflict within one lane are both expanded to max_distance
\* when they are in different lanes; rows without a Lane column all go to
\* lane 0.
C18_LanesAlone ==
    spc = "done" =>
        /\ DOMAIN sample_data = {l \in 0..2 : RowsOfLane(l) # <<>>}
        /\ ~contains(rows[2], "Lane") => DOMAIN sample_data = {0}
        /\ \A l \in DOMAIN sample_data : sample_data[l] = SamplesAlone(l)

\* AAA in lane 1 and AAC in lane 2, which collide at radius 1, are both
\* returned at radius 1
C18_Witness ==
    /\ spc = "done"
    /\ max_distance = 1
    /\ DOMAIN sample_data = {1, 2}
    /\ sample_data[1].index_map = <<Ball(AAA, 1)>>
    /\ sample_data[2].index_map = <<Ball(AAC, 1)>>
    /\ Ball(AAA, 1) \cap Ball(AAC, 1) # {}

\* the rows before the first row whose first field is [Data]
BeforeData ==
    Cardinality({k \in DOMAIN sheet : \A j \in 1..k : sheet[j][1] # "[Data]"})

\* the errors of a sheet that cannot be read
MalformedSheet == {MsgNoSamples, MsgNoSampleName, MsgNoIndex}

\* C19: read_samplesheet skips every row before the first row whose first
\* field is [Data], treats the next row as the header, and fails with the
\* malformed-sample-sheet error before processing any sample row when the
\* header lacks the Sample_Name column or lacks the Index column.
C19_HeaderChecked ==
    spc \notin {Idle, "start"} =>
        /\ rows = SubSeq(sheet, BeforeData + 1, Len(sheet))
        /\ LET at == BeforeData + 2
           IN  (at <= Len(sheet)
                /\ (~contains(sheet[at], "Sample_Name") \/ ~contains(sheet[at], "Index")))
                    => /\ spc = "panicked"
                       /\ err \in MalformedSheet
                       /\ n_records = 0
                       /\ lanes = <<>>
                       /\ sample_data = <<>>
                       /\ pc = Idle

\* a sheet with a preamble, a header without Index column and two sample rows
C19_Witness ==
    /\ spc = "panicked"
    /\ err = MsgNoIndex
    /\ BeforeData = 2
    /\ Len(rows) = 4
    /\ contains(rows[2], "Sample_Name")
    /\ n_records = 0

----------------------------------------------------------------------------
(* Properties of the parallel expansion *)

\* a conflict check of the loop has run and no worker has been handed out
\* since
RoundChecked == pc \in {"loop", "return", "done"} /\ i >= 1

\* C20: at each radius step the conflict check runs only after every
\* per-sample expansion worker of the step, for index and for index2, has
\* finished, and the returned Samples is the same for every interleaving and
\* completion order of the workers, index_map[k] and index2_map[k] being the
\* sets of sample k.
C20_JoinBeforeCheck ==
    /\ RoundChecked => Collected(new_sets) /\ Collected(new_sets2)
    /\ pc = "par_index2" => Collected(new_sets)
    /\ Returned =>
        /\ DOMAIN samples.index_map = DOMAIN index_vec
        /\ DOMAIN samples.index2_map = DOMAIN index2_vec
        /\ \A k \in DOMAIN index_vec : samples.index_map[k] = Ball(index_vec[k], RStar)
        /\ \A k \in DOMAIN index2_vec : samples.index2_map[k] = Ball(index2_vec[k], RStar)

\* the worker of the second sample has delivered while the worker of the
\* first is still running
C20_Witness ==
    /\ pc = "par_index"
    /\ Len(new_sets) = 2
    /\ new_sets[1].state = "running"
    /\ new_sets[2] = Done(Ball(index_vec[2], i))
    /\ index_vec[1] # index_vec[2]

----------------------------------------------------------------------------
(* Properties of the assignment of clusters to samples *)

\* the queries of the lane's own arity that some sample could accept: one
\* index out of the index sets on a single-index lane, an index and an index2
\* out of the two maps' sets on a two-index lane (a query outside them is
\* accepted by no sample)
OwnArityQueries ==
    LET idx == UNION {samples.index_map[k] : k \in DOMAIN samples.index_map}
        idx2 == UNION {samples.index2_map[k] : k \in DOMAIN samples.index2_map}
    IN  IF TwoIndexLane THEN {<<a, b>> : a \in idx, b \in idx2}
        ELSE {<<a>> : a \in idx}

\* the samples get_sample accepts the query for
Accepting(q) ==
    {k \in DOMAIN samples.index_map : get_sample(samples, k, q) = Bool(TRUE)}

\* C21: for every Samples value returned by make_sample_maps and every query
\* of the lane's own arity (one index on a single-index lane, two on a
\* two-index lane), get_sample is true for at most one sample, so a cluster is
\* never assigned to two samples.
C21_AtMostOneSample ==
    Returned => \A q \in OwnArityQueries : Cardinality(Accepting(q)) <= 1

\* a two-index lane returned at radius 1 after the conflict at radius 2, and
\* a query whose index is in both samples' sets and whose index2 tells them
\* apart
C21_Witness ==
    /\ Returned
    /\ TwoIndexLane
    /\ Len(samples.index_map) = 2
    /\ i = 2
    /\ \E q \in OwnArityQueries :
          /\ q[1] \in samples.index_map[1] \cap samples.index_map[2]
          /\ q[1] \notin {index_vec[1], index_vec[2]}
          /\ Accepting(q) = {1}

====
